---- MODULE Spec2Model ----
(***************************************************************************)
(* A model of src/spidevioctl.rs: the SpidevTransfer descriptor, its       *)
(* rendering into the kernel's spi_ioc_transfer record, the two transfer   *)
(* entry points and the scalar get/set entry points.                       *)
(*                                                                         *)
(* The caller owns a Vec<SpidevTransfer> (descs).  A Box<[u8]> is a fat    *)
(* pointer (ptr, n) into the heap; the heap maps every block address to    *)
(* the bytes stored there, <<>> for a block that is not allocated.  Every  *)
(* operation leaves in `calls` the device calls it issued and in `lastOp`  *)
(* its name, its arguments and the value it returned; `edits` counts the   *)
(* assignments the caller made to the public tx_buf and rx_buf fields.     *)
(***************************************************************************)
EXTENDS Naturals, Sequences, FiniteSets, TLC

VARIABLES descs, heap, calls, lastOp, edits

vars == <<descs, heap, calls, lastOp, edits>>

\* ------------------------------------------------------------------ bounds
\* descriptors the caller holds at once
MaxDescs == 2

\* bytes in a buffer the caller asks for
MaxLen == 2

\* assignments to the public buffer fields in one run
MaxEdits == 1

\* the byte values on the bus
Byte == {0, 1}

\* the errno values the kernel rejects a call with (EFAULT, EINVAL)
Errnos == {14, 22}

\* ------------------------------------------------------------------ helpers
Zeros(n) == [j \in 1..n |-> 0]

Ones(n) == [j \in 1..n |-> 1]

\* the caller's data of n bytes: 1, 0, 1, ...
Alt(n) == [j \in 1..n |-> j % 2]

ByteSeqs(n) == [1..n -> Byte]

\* the byte slices the caller passes in
Inputs == {Alt(n) : n \in 0..MaxLen}

TwoPow16 == 65536

Low16(n) == n % TwoPow16

\* `x as u32`: the low 32 bits of x
AsU32(n) == Low16(n) + TwoPow16 * Low16(n \div TwoPow16)

\* ------------------------------------------------------------------ heap
\* the address of an empty boxed slice: no allocation, a dangling non-null
\* pointer aligned for u8
Dangling == 1

Addrs == 2..(2 * MaxDescs + 2)

Live(h) == {a \in Addrs : h[a] # <<>>}

FreshAddr(h) == CHOOSE a \in Addrs \ Live(h) : \A b \in Addrs \ Live(h) : a <= b

None == [some |-> FALSE, ptr |-> 0, n |-> 0]

Some(p, len) == [some |-> TRUE, ptr |-> p, n |-> len]

\* vec.into_boxed_slice(): the allocation of a vector of these bytes
IntoBoxedSlice(h, bytes) ==
    IF bytes = <<>>
    THEN [box |-> Some(Dangling, 0), heap |-> h]
    ELSE [box |-> Some(FreshAddr(h), Len(bytes)),
          heap |-> [h EXCEPT ![FreshAddr(h)] = bytes]]

\* the bytes of a buffer
Contents(h, buf) == IF buf.some /\ buf.n > 0 THEN h[buf.ptr] ELSE <<>>

\* dropping an Option<Box<[u8]>> frees its block
DropBuf(h, buf) ==
    IF buf.some /\ buf.n > 0 THEN [h EXCEPT ![buf.ptr] = <<>>] ELSE h

\* ------------------------------------------------------------------ SpidevTransfer
DefaultTransfer ==
    [tx_buf |-> None, rx_buf |-> None, len |-> 0, speed_hz |-> 0,
     delay_usecs |-> 0, bits_per_word |-> 0, cs_change |-> 0, pad |-> 0]

\* read with the receive vector reserved but never filled: Vec::with_capacity(length)
read_with_capacity(h, length) ==
    LET rx == IntoBoxedSlice(h, <<>>)
    IN  [t |-> [DefaultTransfer EXCEPT !.rx_buf = rx.box, !.len = AsU32(length)],
         heap |-> rx.heap]

read(h, length) ==
    LET rx == IntoBoxedSlice(h, Zeros(length))
    IN  [t |-> [DefaultTransfer EXCEPT !.rx_buf = rx.box, !.len = AsU32(length)],
         heap |-> rx.heap]

\* write with the copy loop starting one element late: for i in 1..len
write_short_copy(h, tx_buf) ==
    LET len == Len(tx_buf)
        rx == IntoBoxedSlice(h, Zeros(len))
        tx_buf_vec == IF len = 0 THEN <<>> ELSE [i \in 1..(len - 1) |-> tx_buf[i + 1]]
        tx == IntoBoxedSlice(rx.heap, tx_buf_vec)
    IN  [t |-> [DefaultTransfer EXCEPT !.tx_buf = tx.box, !.rx_buf = rx.box,
                                       !.len = AsU32(Len(tx_buf))],
         heap |-> tx.heap]

write(h, tx_buf) ==
    LET len == Len(tx_buf)
        rx == IntoBoxedSlice(h, Zeros(len))
        tx_buf_vec == [i \in 1..len |-> tx_buf[i]]
        tx == IntoBoxedSlice(rx.heap, tx_buf_vec)
    IN  [t |-> [DefaultTransfer EXCEPT !.tx_buf = tx.box, !.rx_buf = rx.box,
                                       !.len = AsU32(Len(tx_buf))],
         heap |-> tx.heap]

\* cs_change that flips the flag on true and keeps it on false
cs_change_toggle(t, flag) ==
    [t EXCEPT !.cs_change = IF flag THEN 1 - t.cs_change ELSE t.cs_change]

cs_change(t, flag) == [t EXCEPT !.cs_change = IF flag THEN 1 ELSE 0]

\* rendering that takes the addresses of copies of the buffers, freed when it returns
as_spi_ioc_transfer_of_copy(t) ==
    [tx_buf |-> IF t.tx_buf.some
                THEN (IF t.tx_buf.n > 0 THEN FreshAddr(heap) ELSE Dangling) ELSE 0,
     rx_buf |-> IF t.rx_buf.some
                THEN (IF t.rx_buf.n > 0 THEN FreshAddr(heap) ELSE Dangling) ELSE 0,
     len |-> t.len,
     speed_hz |-> t.speed_hz,
     delay_usecs |-> t.delay_usecs,
     bits_per_word |-> t.bits_per_word,
     cs_change |-> t.cs_change,
     pad |-> t.pad]

\* rendering with the two pointer fields exchanged
as_spi_ioc_transfer_swapped(t) ==
    [tx_buf |-> IF t.rx_buf.some THEN t.rx_buf.ptr ELSE 0,
     rx_buf |-> IF t.tx_buf.some THEN t.tx_buf.ptr ELSE 0,
     len |-> t.len,
     speed_hz |-> t.speed_hz,
     delay_usecs |-> t.delay_usecs,
     bits_per_word |-> t.bits_per_word,
     cs_change |-> t.cs_change,
     pad |-> t.pad]

as_spi_ioc_transfer(t) ==
    [tx_buf |-> IF t.tx_buf.some THEN t.tx_buf.ptr ELSE 0,
     rx_buf |-> IF t.rx_buf.some THEN t.rx_buf.ptr ELSE 0,
     len |-> t.len,
     speed_hz |-> t.speed_hz,
     delay_usecs |-> t.delay_usecs,
     bits_per_word |-> t.bits_per_word,
     cs_change |-> t.cs_change,
     pad |-> t.pad]

\* mem::size_of::<spi_ioc_transfer>() under repr(C): u64, u64, u32, u32, u16,
\* u8, u8, u32 in declaration order, naturally aligned, no padding
SizeOfRecord == 8 + 8 + 4 + 4 + 2 + 1 + 1 + 4

\* ------------------------------------------------------------------ results
Ok(v) == [ok |-> TRUE, val |-> v]

Err(e) == [ok |-> FALSE, val |-> e]

\* conversion that drops the errno: io::Error::from_raw_os_error(0)
from_nix_error_no_code(err) == Err(0)

from_nix_error(err) == Err(err.val)

from_nix_result(res) == IF res.ok THEN Ok(res.val) ELSE from_nix_error(res)

\* try!(from_nix_result(..)); Ok(value)
TryThen(res, value) == IF from_nix_result(res).ok THEN Ok(value) ELSE from_nix_result(res)

\* ------------------------------------------------------------------ the kernel
\* the bytes the kernel reads from user memory at p: the block's bytes, and
\* whatever lies behind the block when count exceeds it
ReadUser(h, p, count) ==
    LET blk == IF p \in Addrs THEN h[p] ELSE <<>>
    IN  {[j \in 1..count |-> IF j <= Len(blk) THEN blk[j] ELSE g[j - Len(blk)]] :
            g \in ByteSeqs(IF count > Len(blk) THEN count - Len(blk) ELSE 0)}

\* the heap after the kernel wrote data to user memory at p
WriteUser(h, p, data) ==
    IF p \in Addrs
    THEN [h EXCEPT ![p] = [j \in 1..Len(h[p]) |->
                              IF j <= Len(data) THEN data[j] ELSE h[p][j]]]
    ELSE h

\* a record's user pointer faults when bytes are moved and nothing is mapped there
Faults(h, p, count) == p # 0 /\ count > 0 /\ p \notin Live(h)

Overruns(h, p, count) == p \in Live(h) /\ count > Len(h[p])

\* the bytes the device answers with: an echo of what was shifted out, or the
\* line held high
ShiftedIn(out) == {out, Ones(Len(out))}

\* what the bus carries for each record: the bytes shifted out and shifted in
Wire(h, recs) ==
    LET RECURSIVE W(_)
        W(rs) ==
            IF rs = <<>> THEN {<<>>}
            ELSE LET r == Head(rs)
                     outs == IF r.tx_buf = 0 THEN {Zeros(r.len)}
                             ELSE ReadUser(h, r.tx_buf, r.len)
                 IN  UNION {{<<[out |-> o, in |-> i]>> \o rest :
                               i \in ShiftedIn(o), rest \in W(Tail(rs))} : o \in outs}
    IN  W(recs)

\* the heap after the kernel copied every record's received bytes out
CopyOut(h, recs, wire) ==
    LET RECURSIVE C(_, _)
        C(hh, k) ==
            IF k > Len(recs) THEN hh
            ELSE C(IF recs[k].rx_buf # 0
                   THEN WriteUser(hh, recs[k].rx_buf, wire[k].in) ELSE hh, k + 1)
    IN  C(h, 1)

\* the outcomes of SPI_IOC_MESSAGE over these records
KernelMessage(h, recs) ==
    {[res |-> Err(e), heap |-> h, wire |-> <<>>, overrun |-> FALSE] : e \in Errnos}
    \cup
    IF \E k \in 1..Len(recs) :
          Faults(h, recs[k].tx_buf, recs[k].len) \/ Faults(h, recs[k].rx_buf, recs[k].len)
    THEN {}
    ELSE {[res |-> Ok(0), heap |-> CopyOut(h, recs, w), wire |-> w,
           overrun |-> \E k \in 1..Len(recs) :
                          \/ Overruns(h, recs[k].tx_buf, recs[k].len)
                          \/ Overruns(h, recs[k].rx_buf, recs[k].len)] :
            w \in Wire(h, recs)}


\* the outcomes of a fixed-size read ioctl: the kernel stores a value, or rejects
KernelGet(values) ==
    {[res |-> Err(e), val |-> 0] : e \in Errnos}
    \cup {[res |-> Ok(0), val |-> v] : v \in values}

\* the outcomes of a fixed-size write ioctl
KernelSet == {Err(e) : e \in Errnos} \cup {Ok(0)}

\* ------------------------------------------------------------------ device calls
SPI_IOC_NR_TRANSFER == 0

SPI_IOC_NR_MODE == 1

SPI_IOC_NR_LSB_FIRST == 2

SPI_IOC_NR_BITS_PER_WORD == 3

SPI_IOC_NR_MAX_SPEED_HZ == 4

SPI_IOC_NR_MODE32 == 5

\* a device call as the kernel sees it: the ioctl, its direction, number and
\* size, its argument (mode bits, a scalar, or transfer records), and the outcome
Call(name, dir, nr, size) ==
    [name |-> name, dir |-> dir, nr |-> nr, size |-> size, bits |-> {}, val |-> 0,
     records |-> <<>>, res |-> Ok(0), wire |-> <<>>, overrun |-> FALSE]

MessageCall(name, size, recs, k) ==
    [Call(name, "write", SPI_IOC_NR_TRANSFER, size) EXCEPT
        !.records = recs, !.res = k.res, !.wire = k.wire, !.overrun = k.overrun]

\* ------------------------------------------------------------------ the caller
NoArgs == [idx |-> 0, len |-> 0, bytes |-> <<>>, flag |-> FALSE, bits |-> {}]

Op(name, args, result) == [name |-> name, args |-> args, result |-> result]

Init ==
    /\ descs = <<>>
    /\ heap = [a \in Addrs |-> <<>>]
    /\ calls = <<>>
    /\ lastOp = Op("init", NoArgs, Ok(0))
    /\ edits = 0

\* descs.push(SpidevTransfer::read(length))
Read ==
    \E length \in 0..MaxLen :
        /\ Len(descs) < MaxDescs
        /\ descs' = Append(descs, read(heap, length).t)
        /\ heap' = read(heap, length).heap
        /\ calls' = <<>>
        /\ lastOp' = Op("read", [NoArgs EXCEPT !.len = length], Ok(0))
        /\ UNCHANGED edits

\* descs.push(SpidevTransfer::write(b))
Write ==
    \E b \in Inputs :
        /\ Len(descs) < MaxDescs
        /\ descs' = Append(descs, write(heap, b).t)
        /\ heap' = write(heap, b).heap
        /\ calls' = <<>>
        /\ lastOp' = Op("write", [NoArgs EXCEPT !.bytes = b], Ok(0))
        /\ UNCHANGED edits

\* descs[i] = descs[i].cs_change(flag)
CsChange ==
    \E i \in 1..Len(descs), flag \in BOOLEAN :
        /\ descs' = [descs EXCEPT ![i] = cs_change(descs[i], flag)]
        /\ calls' = <<>>
        /\ lastOp' = Op("cs_change", [NoArgs EXCEPT !.idx = i, !.flag = flag], Ok(0))
        /\ UNCHANGED <<heap, edits>>

\* the values a caller assigns to a public buffer field
BufValues == {[some |-> FALSE, bytes |-> <<>>]} \cup {[some |-> TRUE, bytes |-> b] : b \in Inputs}

\* the heap and the field after `field = v`: the new value is built first, then
\* stored, and the value it replaces is dropped
Assign(h, old, v) ==
    IF v.some
    THEN [box |-> IntoBoxedSlice(h, v.bytes).box,
          heap |-> DropBuf(IntoBoxedSlice(h, v.bytes).heap, old)]
    ELSE [box |-> None, heap |-> DropBuf(h, old)]

\* descs[i].tx_buf = v
SetTxBuf ==
    \E i \in 1..Len(descs), v \in BufValues :
        /\ edits < MaxEdits
        /\ edits' = edits + 1
        /\ descs' = [descs EXCEPT ![i].tx_buf = Assign(heap, descs[i].tx_buf, v).box]
        /\ heap' = Assign(heap, descs[i].tx_buf, v).heap
        /\ calls' = <<>>
        /\ lastOp' = Op("set_tx_buf",
                        [NoArgs EXCEPT !.idx = i, !.bytes = v.bytes, !.flag = v.some], Ok(0))

\* descs[i].rx_buf = v
SetRxBuf ==
    \E i \in 1..Len(descs), v \in BufValues :
        /\ edits < MaxEdits
        /\ edits' = edits + 1
        /\ descs' = [descs EXCEPT ![i].rx_buf = Assign(heap, descs[i].rx_buf, v).box]
        /\ heap' = Assign(heap, descs[i].rx_buf, v).heap
        /\ calls' = <<>>
        /\ lastOp' = Op("set_rx_buf",
                        [NoArgs EXCEPT !.idx = i, !.bytes = v.bytes, !.flag = v.some], Ok(0))

\* the heap after every buffer of these descriptors is dropped
DropAll(h, ds) ==
    LET RECURSIVE D(_, _)
        D(hh, k) ==
            IF k > Len(ds) THEN hh
            ELSE D(DropBuf(DropBuf(hh, ds[k].tx_buf), ds[k].rx_buf), k + 1)
    IN  D(h, 1)

\* drop(descs): the descriptors go out of scope, and their buffers with them
Drop ==
    /\ descs # <<>>
    /\ descs' = <<>>
    /\ heap' = DropAll(heap, descs)
    /\ calls' = <<>>
    /\ lastOp' = Op("drop", NoArgs, Ok(0))
    /\ UNCHANGED edits

\* transfer(fd, &mut descs[i])
Transfer ==
    \E i \in 1..Len(descs) :
        LET raw_transfer == as_spi_ioc_transfer(descs[i])
        IN  \E k \in KernelMessage(heap, <<raw_transfer>>) :
              /\ calls' = <<MessageCall("spidev_transfer", SizeOfRecord, <<raw_transfer>>, k)>>
              /\ heap' = k.heap
              /\ lastOp' = Op("transfer", [NoArgs EXCEPT !.idx = i], TryThen(k.res, 0))
              /\ UNCHANGED <<descs, edits>>

\* records collected back to front
raw_transfers_reversed(transfers) ==
    [k \in 1..Len(transfers) |-> as_spi_ioc_transfer(transfers[Len(transfers) + 1 - k])]

raw_transfers(transfers) ==
    [k \in 1..Len(transfers) |-> as_spi_ioc_transfer(transfers[k])]

tot_size(raw) == Len(raw) * SizeOfRecord

\* transfer_multiple(fd, &descs)
TransferMultiple ==
    \E k \in KernelMessage(heap, raw_transfers(descs)) :
        /\ calls' = <<MessageCall("spidev_transfer_buf", tot_size(raw_transfers(descs)),
                                  raw_transfers(descs), k)>>
        /\ heap' = k.heap
        /\ lastOp' = Op("transfer_multiple", NoArgs, TryThen(k.res, 0))
        /\ UNCHANGED <<descs, edits>>

\* ------------------------------------------------------------------ scalar properties
\* SpiModeFlags.bits, a u32, as the set of its one bits
ModeFlagValues == {{}, {0, 1}, {7}, {8}, {1, 31}}

\* 0xFFFFFF00
HighBits == 8..31

\* a & b on 32-bit words
BitAnd(a, b) == a \cap b

\* `x as u8` on a word
AsU8(bits) == {b \in bits : b < 8}

\* the test with the mask 0xFFFF0000
UsesMode32_high_half(bits) == BitAnd(bits, 16..31) # {}

\* (mode.bits & 0xFFFFFF00) != 0
UsesMode32(bits) == BitAnd(bits, HighBits) # {}

\* the values the device reports for a u8 and for a u32 property
U8Values == {0, 3}

U32Values == {500000}

\* the word sizes a caller asks for
WordSizes == {8, 16}

get_mode ==
    \E k \in KernelGet(U8Values) :
        /\ calls' = <<[Call("get_mode_u8", "read", SPI_IOC_NR_MODE, 1) EXCEPT
                          !.val = k.val, !.res = k.res]>>
        /\ lastOp' = Op("get_mode", NoArgs, TryThen(k.res, k.val))
        /\ UNCHANGED <<descs, heap, edits>>

set_mode ==
    \E bits \in ModeFlagValues, res \in KernelSet :
        /\ calls' = IF UsesMode32(bits)
                    THEN <<[Call("set_mode_u32", "write", SPI_IOC_NR_MODE32, 4) EXCEPT
                               !.bits = bits, !.res = res]>>
                    ELSE <<[Call("set_mode_u8", "write", SPI_IOC_NR_MODE, 1) EXCEPT
                               !.bits = AsU8(bits), !.res = res]>>
        /\ lastOp' = Op("set_mode", [NoArgs EXCEPT !.bits = bits], TryThen(res, 0))
        /\ UNCHANGED <<descs, heap, edits>>

get_lsb_first ==
    \E k \in KernelGet(U8Values) :
        /\ calls' = <<[Call("get_lsb_first", "read", SPI_IOC_NR_LSB_FIRST, 1) EXCEPT
                          !.val = k.val, !.res = k.res]>>
        /\ lastOp' = Op("get_lsb_first", NoArgs, TryThen(k.res, k.val))
        /\ UNCHANGED <<descs, heap, edits>>

set_lsb_first ==
    \E lsb_first \in BOOLEAN, res \in KernelSet :
        /\ calls' = <<[Call("set_lsb_first", "write", SPI_IOC_NR_LSB_FIRST, 1) EXCEPT
                          !.val = IF lsb_first THEN 1 ELSE 0, !.res = res]>>
        /\ lastOp' = Op("set_lsb_first", [NoArgs EXCEPT !.flag = lsb_first], TryThen(res, 0))
        /\ UNCHANGED <<descs, heap, edits>>

get_bits_per_word ==
    \E k \in KernelGet(U8Values) :
        /\ calls' = <<[Call("get_bits_per_word", "read", SPI_IOC_NR_BITS_PER_WORD, 1) EXCEPT
                          !.val = k.val, !.res = k.res]>>
        /\ lastOp' = Op("get_bits_per_word", NoArgs, TryThen(k.res, k.val))
        /\ UNCHANGED <<descs, heap, edits>>

set_bits_per_word ==
    \E bits_per_word \in WordSizes, res \in KernelSet :
        /\ calls' = <<[Call("set_bits_per_word", "write", SPI_IOC_NR_BITS_PER_WORD, 1) EXCEPT
                          !.val = bits_per_word, !.res = res]>>
        /\ lastOp' = Op("set_bits_per_word", [NoArgs EXCEPT !.len = bits_per_word],
                        TryThen(res, 0))
        /\ UNCHANGED <<descs, heap, edits>>

get_max_speed_hz ==
    \E k \in KernelGet(U32Values) :
        /\ calls' = <<[Call("get_max_speed_hz", "read", SPI_IOC_NR_MAX_SPEED_HZ, 4) EXCEPT
                          !.val = k.val, !.res = k.res]>>
        /\ lastOp' = Op("get_max_speed_hz", NoArgs, TryThen(k.res, k.val))
        /\ UNCHANGED <<descs, heap, edits>>

set_max_speed_hz ==
    \E max_speed_hz \in U32Values, res \in KernelSet :
        /\ calls' = <<[Call("set_max_speed_hz", "write", SPI_IOC_NR_MAX_SPEED_HZ, 4) EXCEPT
                          !.val = max_speed_hz, !.res = res]>>
        /\ lastOp' = Op("set_max_speed_hz", [NoArgs EXCEPT !.len = max_speed_hz],
                        TryThen(res, 0))
        /\ UNCHANGED <<descs, heap, edits>>

\* ------------------------------------------------------------------ specifications
\* a caller that builds, edits and submits descriptors
Next ==
    \/ Read
    \/ Write
    \/ CsChange
    \/ SetTxBuf
    \/ SetRxBuf
    \/ Drop
    \/ Transfer
    \/ TransferMultiple

Spec == Init /\ [][Next]_vars

\* a caller that only builds and drops descriptors
NextBuild ==
    \/ Read
    \/ Write
    \/ CsChange
    \/ Drop

SpecBuild == Init /\ [][NextBuild]_vars

\* a caller that sets the device up while it holds no descriptor, then builds
\* descriptors with read and write and submits them
NextDevice ==
    \/ Read
    \/ Write
    \/ Drop
    \/ Transfer
    \/ TransferMultiple
    \/ descs = <<>> /\ get_mode
    \/ descs = <<>> /\ set_mode
    \/ descs = <<>> /\ get_lsb_first
    \/ descs = <<>> /\ set_lsb_first
    \/ descs = <<>> /\ get_bits_per_word
    \/ descs = <<>> /\ set_bits_per_word
    \/ descs = <<>> /\ get_max_speed_hz
    \/ descs = <<>> /\ set_max_speed_hz

SpecDevice == Init /\ [][NextDevice]_vars

\* ------------------------------------------------------------------ properties
SubmitOps == {"transfer", "transfer_multiple"}

EntryPoints ==
    SubmitOps \cup {"get_mode", "set_mode", "get_lsb_first", "set_lsb_first",
                    "get_bits_per_word", "set_bits_per_word",
                    "get_max_speed_hz", "set_max_speed_hz"}

\* the descriptors operation op was handed, out of ds
Submitted(op, ds) == IF op.name = "transfer" THEN <<ds[op.args.idx]>> ELSE ds

\* record r is the rendering of descriptor d
RenderedFrom(r, d) ==
    /\ d.tx_buf.some => r.tx_buf = d.tx_buf.ptr /\ r.tx_buf # 0
    /\ ~d.tx_buf.some => r.tx_buf = 0
    /\ d.rx_buf.some => r.rx_buf = d.rx_buf.ptr /\ r.rx_buf # 0
    /\ ~d.rx_buf.some => r.rx_buf = 0
    /\ r.len = d.len
    /\ r.speed_hz = d.speed_hz
    /\ r.delay_usecs = d.delay_usecs
    /\ r.bits_per_word = d.bits_per_word
    /\ r.cs_change = d.cs_change
    /\ r.pad = d.pad

\* buffer buf is allocated in h with the size the box records
Alive(h, buf) == buf.n > 0 => buf.ptr \in Live(h) /\ Len(h[buf.ptr]) = buf.n

\* C1: transfer_multiple over N descriptors issues exactly one variable-length
\* call; its buffer holds N records, record i the rendering of descriptor i,
\* and its size argument is N times the 32 bytes of a record.
C1_BatchIsOneOrderedCall ==
    lastOp.name = "transfer_multiple" =>
        /\ Len(calls) = 1
        /\ calls[1].name = "spidev_transfer_buf"
        /\ calls[1].dir = "write"
        /\ calls[1].nr = 0
        /\ Len(calls[1].records) = Len(descs)
        /\ \A i \in 1..Len(descs) : RenderedFrom(calls[1].records[i], descs[i])
        /\ calls[1].size = Len(descs) * 32

C1_Witness ==
    /\ lastOp.name = "transfer_multiple"
    /\ Len(descs) >= 2
    /\ calls[1].records[1] # calls[1].records[2]
    /\ calls[1].size = 64

\* C2 (as claimed): after a successful transfer or transfer_multiple every
\* receive buffer of a submitted descriptor holds exactly the bytes the device
\* shifted in for that transfer (so with an echoing device it equals a transmit
\* buffer of len bytes), and a descriptor without a receive buffer is unchanged.
C2_RxHoldsShiftedIn ==
    [][(lastOp'.name \in SubmitOps /\ lastOp'.result.ok) =>
         \A k \in 1..Len(Submitted(lastOp', descs)) :
            LET d == Submitted(lastOp', descs)[k]
                e == Submitted(lastOp', descs')[k]
                w == calls'[1].wire[k]
            IN  /\ d.rx_buf.some => Contents(heap', e.rx_buf) = w.in
                /\ (d.rx_buf.some /\ d.tx_buf.some /\ d.tx_buf.n = d.len /\ w.in = w.out) =>
                       Contents(heap', e.rx_buf) = Contents(heap', e.tx_buf)
                /\ ~d.rx_buf.some =>
                       e = d /\ Contents(heap', e.tx_buf) = Contents(heap, d.tx_buf)]_vars

\* C3: set_mode issues exactly one call: the 32-bit MODE32 write when a bit above
\* the low 8 is set, the 8-bit MODE write otherwise.
C3_ModeWidthDispatch ==
    lastOp.name = "set_mode" =>
        /\ Len(calls) = 1
        /\ calls[1].dir = "write"
        /\ IF \E b \in lastOp.args.bits : b >= 8
           THEN /\ calls[1].name = "set_mode_u32"
                /\ calls[1].nr = 5
                /\ calls[1].size = 4
                /\ calls[1].bits = lastOp.args.bits
           ELSE /\ calls[1].name = "set_mode_u8"
                /\ calls[1].nr = 1
                /\ calls[1].size = 1
                /\ calls[1].bits = lastOp.args.bits

C3_Witness ==
    /\ lastOp.name = "set_mode"
    /\ lastOp.args.bits = {8}
    /\ calls[1].name = "set_mode_u32"

\* C4: every entry point issues exactly one device call and returns what the
\* kernel answered: success for success, and for a rejection an error carrying
\* exactly the kernel's code.
C4_ErrnoSurfaced ==
    lastOp.name \in EntryPoints =>
        /\ Len(calls) = 1
        /\ calls[1].res.ok => lastOp.result.ok
        /\ ~calls[1].res.ok =>
              /\ ~lastOp.result.ok
              /\ lastOp.result.val = calls[1].res.val
              /\ lastOp.result.val \in Errnos

C4_Witness ==
    /\ lastOp.name = "transfer_multiple"
    /\ Len(descs) = 2
    /\ ~lastOp.result.ok
    /\ lastOp.result.val = 22

\* C5 (as claimed): whenever a descriptor is rendered for submission, each of
\* its buffers that is present has exactly len bytes.
C5_BuffersHaveLenBytes ==
    lastOp.name \in SubmitOps =>
        \A k \in 1..Len(Submitted(lastOp, descs)) :
            LET d == Submitted(lastOp, descs)[k]
            IN  /\ d.tx_buf.some => d.tx_buf.n = d.len /\ Len(Contents(heap, d.tx_buf)) = d.len
                /\ d.rx_buf.some => d.rx_buf.n = d.len /\ Len(Contents(heap, d.rx_buf)) = d.len

\* C6: during a transfer or transfer_multiple call every nonzero pointer of a
\* submitted record is the address of a buffer owned by a descriptor handed to
\* that call, allocated when the call is made and when it returns, and the
\* descriptors are where they were.
C6_PointersStayValid ==
    [][lastOp'.name \in SubmitOps =>
         /\ descs' = descs
         /\ Len(calls'[1].records) = Len(Submitted(lastOp', descs))
         /\ \A k \in 1..Len(calls'[1].records) :
               LET r == calls'[1].records[k]
                   owned == UNION {{Submitted(lastOp', descs)[j].tx_buf,
                                    Submitted(lastOp', descs)[j].rx_buf} :
                                      j \in 1..Len(Submitted(lastOp', descs))}
               IN  \A p \in {r.tx_buf, r.rx_buf} \ {0} :
                      \E buf \in owned :
                         /\ buf.some
                         /\ buf.ptr = p
                         /\ Alive(heap, buf)
                         /\ Alive(heap', buf)]_vars

C6_Witness ==
    /\ lastOp.name = "transfer_multiple"
    /\ lastOp.result.ok
    /\ \E k \in 1..Len(calls[1].records) :
          /\ calls[1].records[k].tx_buf \in Live(heap)
          /\ calls[1].records[k].rx_buf \in Live(heap)

\* C7: read(length) returns a descriptor with no transmit buffer, a receive
\* buffer of exactly length zero bytes, and every override field zero.
C7_ReadBuildsZeroedRx ==
    lastOp.name = "read" =>
        LET t == descs[Len(descs)]
        IN  /\ ~t.tx_buf.some
            /\ t.rx_buf.some
            /\ t.rx_buf.n = lastOp.args.len
            /\ Alive(heap, t.rx_buf)
            /\ Contents(heap, t.rx_buf) = Zeros(lastOp.args.len)
            /\ t.speed_hz = 0
            /\ t.delay_usecs = 0
            /\ t.bits_per_word = 0
            /\ t.cs_change = 0
            /\ t.pad = 0

C7_Witness ==
    /\ lastOp.name = "read"
    /\ lastOp.args.len = 2
    /\ Contents(heap, descs[Len(descs)].rx_buf) = <<0, 0>>

\* C8: write(b) returns a descriptor whose transmit buffer equals b byte for
\* byte and whose receive buffer is present, all zero and as long as b.
C8_WriteCopiesInput ==
    lastOp.name = "write" =>
        LET t == descs[Len(descs)]
            b == lastOp.args.bytes
        IN  /\ t.tx_buf.some
            /\ t.tx_buf.n = Len(b)
            /\ Alive(heap, t.tx_buf)
            /\ Contents(heap, t.tx_buf) = b
            /\ t.rx_buf.some
            /\ t.rx_buf.n = Len(b)
            /\ Alive(heap, t.rx_buf)
            /\ Contents(heap, t.rx_buf) = Zeros(Len(b))
            /\ Len(b) > 0 => t.tx_buf.ptr # t.rx_buf.ptr

C8_Witness ==
    /\ lastOp.name = "write"
    /\ lastOp.args.bytes = <<1, 0>>
    /\ Contents(heap, descs[Len(descs)].tx_buf) = <<1, 0>>

\* C9: cs_change(true) leaves the flag nonzero and cs_change(false) leaves it 0,
\* whatever it was; the buffers, len and the other overrides are as before.
C9_CsChangeSetsOnlyFlag ==
    [][lastOp'.name = "cs_change" =>
         LET i == lastOp'.args.idx
         IN  /\ Len(descs') = Len(descs)
             /\ lastOp'.args.flag => descs'[i].cs_change # 0
             /\ ~lastOp'.args.flag => descs'[i].cs_change = 0
             /\ descs'[i].tx_buf = descs[i].tx_buf
             /\ descs'[i].rx_buf = descs[i].rx_buf
             /\ descs'[i].len = descs[i].len
             /\ descs'[i].speed_hz = descs[i].speed_hz
             /\ descs'[i].delay_usecs = descs[i].delay_usecs
             /\ descs'[i].bits_per_word = descs[i].bits_per_word
             /\ descs'[i].pad = descs[i].pad
             /\ \A j \in 1..Len(descs) : j # i => descs'[j] = descs[j]
             /\ heap' = heap]_vars

C9_Witness ==
    /\ lastOp.name = "cs_change"
    /\ lastOp.args.flag
    /\ descs[lastOp.args.idx].cs_change = 1
    /\ descs[lastOp.args.idx].tx_buf.some
    /\ Contents(heap, descs[lastOp.args.idx].tx_buf) = <<1, 0>>

\* C10: rendering leaves the descriptor as it was; each pointer of the record
\* is the buffer's address when the buffer is present and 0 exactly when it is
\* absent, each scalar equals the descriptor's; and a second rendering of the
\* descriptor, nothing having touched it, gives an equal record.
C10_RenderIsFaithful ==
    [][lastOp'.name \in SubmitOps =>
         /\ descs' = descs
         /\ Len(calls'[1].records) = Len(Submitted(lastOp', descs))
         /\ \A k \in 1..Len(calls'[1].records) :
               RenderedFrom(calls'[1].records[k], Submitted(lastOp', descs)[k])
         /\ (lastOp.name = lastOp'.name /\ lastOp.args = lastOp'.args) =>
               calls'[1].records = calls[1].records]_vars

C10_Witness ==
    /\ lastOp.name = "transfer"
    /\ calls[1].records[1].tx_buf = 0
    /\ calls[1].records[1].rx_buf \in Live(heap)
    /\ calls[1].records[1].cs_change = 1
    /\ calls[1].records[1].len = 2

====
